---- MODULE Spec2Model ----
(***************************************************************************)
(* Model of the interactive-element extraction scripts of web_agent:       *)
(*   simple      src/extractJsonInteractive_simple.js                      *)
(*   structure   src/extractJsonStructure.js (second function)             *)
(*   classified  src/unnamed/part_001 lines 1-89                           *)
(*   extended    src/unnamed/part_001 lines 91-191                         *)
(* A JavaScript string is a sequence of one-character strings, so that     *)
(* trim(), toLowerCase(), includes() and template literals are computed.   *)
(***************************************************************************)
EXTENDS Integers, Sequences, FiniteSets, TLC

VARIABLES doc, call, out, ret

vars == <<doc, call, out, ret>>

\* ------------------------------------------------------------------ bounds
MaxNodes == 2

\* ------------------------------------------------------- JavaScript values
\* null and undefined; neither is a sequence of one-character strings.
Null == <<"<null>">>
Undefined == <<"<undefined>">>
\* the value `true` where the code stores a boolean next to null
True == <<"<true>">>
False == <<"<false>">>
\* an exception propagating out of a function
Thrown == <<"<thrown>">>
\* a value that is an object, not a string (SVGAnimatedString)
Object == <<"<object>">>

\* JavaScript truthiness of a string-or-null-or-undefined value.
Truthy(v) == v # Null /\ v # Undefined /\ v # <<>>

\* a || null
OrNull(v) == IF Truthy(v) THEN v ELSE Null

\* `${v}`: a template literal renders null as the text "null".
Str(v) ==
  IF v = Null THEN <<"n", "u", "l", "l">>
  ELSE IF v = Undefined THEN <<"u", "n", "d", "e", "f", "i", "n", "e", "d">>
  ELSE v

WhiteSpace == {" ", "\t", "\n"}

RECURSIVE TrimLeft(_)
TrimLeft(s) ==
  IF s # <<>> /\ Head(s) \in WhiteSpace THEN TrimLeft(Tail(s)) ELSE s

RECURSIVE TrimRight(_)
TrimRight(s) ==
  IF s # <<>> /\ s[Len(s)] \in WhiteSpace
  THEN TrimRight(SubSeq(s, 1, Len(s) - 1))
  ELSE s

\* String.prototype.trim
Trim(s) == TrimRight(TrimLeft(s))

UpperCase == <<"A", "B", "C", "D", "E", "F", "G", "H", "I", "J", "K", "L", "M",
               "N", "O", "P", "Q", "R", "S", "T", "U", "V", "W", "X", "Y", "Z">>
LowerCase == <<"a", "b", "c", "d", "e", "f", "g", "h", "i", "j", "k", "l", "m",
               "n", "o", "p", "q", "r", "s", "t", "u", "v", "w", "x", "y", "z">>

LowerOf ==
  [c \in {UpperCase[k] : k \in DOMAIN UpperCase} |->
     LowerCase[CHOOSE k \in DOMAIN UpperCase : UpperCase[k] = c]]

LowerChar(c) == IF c \in DOMAIN LowerOf THEN LowerOf[c] ELSE c

\* String.prototype.toLowerCase
ToLowerCase(s) == [k \in DOMAIN s |-> LowerChar(s[k])]

\* String.prototype.includes
Includes(s, sub) ==
  \E k \in 0..(Len(s) - Len(sub)) : SubSeq(s, k + 1, k + Len(sub)) = sub

Digits == <<"0", "1", "2", "3", "4", "5", "6", "7", "8", "9">>

\* `${idx}` for a non-negative integer
RECURSIVE NumStr(_)
NumStr(k) ==
  IF k < 10 THEN <<Digits[k + 1]>>
  ELSE NumStr(k \div 10) \o <<Digits[(k % 10) + 1]>>

\* Array.prototype.join
RECURSIVE Join(_, _)
Join(parts, sep) ==
  IF parts = <<>> THEN <<>>
  ELSE IF Len(parts) = 1 THEN parts[1]
  ELSE parts[1] \o sep \o Join(Tail(parts), sep)

\* Array.prototype.slice(0, n)
Slice0(s, n) == SubSeq(s, 1, IF Len(s) < n THEN Len(s) ELSE n)

\* ---------------------------------------------------------- the DOM (input)
\* doc is the sequence of the document's elements in document order.  Each
\* element is a record of what the scripts read from it:
\*   tagName                       el.tagName (upper case for HTML elements)
\*   id                            el.id ("" when absent)
\*   testid, name, aria, title, placeholder, value, role, href, type,
\*   contenteditable, onclick      getAttribute(...): Null when absent
\*   classList                     the class tokens, in order
\*   innerText                     el.innerText (Undefined on non-HTML elements)
\*   hasBox                        el.offsetParent !== null
\*   disabled, readOnly            the element's flags
\*   style                         what getComputedStyle(el) gives: "shown",
\*                                 "hidden" (visibility:hidden), "none"
\*                                 (display:none) or "throws"
\*   parent                        index in doc of el.parentNode, 0 for <body>
\*   parentOk                      FALSE when reading el.parentNode.children
\*                                 raises (parentNode shadowed by the named
\*                                 controls of a <form>, or absent)
Button == <<"B", "U", "T", "T", "O", "N">>
Input == <<"I", "N", "P", "U", "T">>
Div == <<"D", "I", "V">>

DefaultNode ==
  [tagName |-> Button, id |-> <<>>, testid |-> Null, name |-> Null,
   classList |-> <<>>, aria |-> Null, title |-> Null, placeholder |-> Null,
   value |-> Null, role |-> Null, href |-> Null, type |-> Null,
   contenteditable |-> Null, onclick |-> Null, innerText |-> <<>>,
   hasBox |-> TRUE, disabled |-> FALSE, readOnly |-> FALSE,
   style |-> "shown", parent |-> 0, parentOk |-> TRUE]

\* el.tagName.toLowerCase()
Tag(el) == ToLowerCase(el.tagName)

\* el.name: the reflected name attribute of form controls, links and forms,
\* undefined on elements that have no such property.
NameProp(el) ==
  IF Tag(el) \in {ToLowerCase(Button), ToLowerCase(Input),
                  <<"t", "e", "x", "t", "a", "r", "e", "a">>,
                  <<"s", "e", "l", "e", "c", "t">>, <<"a">>,
                  <<"f", "o", "r", "m">>}
  THEN (IF el.name = Null THEN <<>> ELSE el.name)
  ELSE Undefined

\* el.className: the class attribute
ClassName(el) == Join(el.classList, <<" ">>)

\* el.isContentEditable: own attribute, or inherited from the parent
RECURSIVE IsContentEditable(_, _)
IsContentEditable(d, i) ==
  \/ d[i].contenteditable = <<"t", "r", "u", "e">>
  \/ d[i].parent # 0 /\ IsContentEditable(d, d[i].parent)

\* [...el.parentNode.children].indexOf(el) + 1
ChildIndex(d, i) ==
  Cardinality({j \in 1..i : d[j].parent = d[i].parent})

ChildCount(d, p) == Cardinality({j \in DOMAIN d : d[j].parent = p})

\* ------------------------------------------------- selector synthesis
QuoteClose == <<"\"", "]">>

TestIdSelector(el) ==
  <<"[", "d", "a", "t", "a", "-", "t", "e", "s", "t", "i", "d", "=", "\"">>
    \o el.testid \o QuoteClose

IdSelector(el) == <<"#">> \o el.id

NameSelector(el) ==
  Tag(el) \o <<"[", "n", "a", "m", "e", "=", "\"">> \o NameProp(el) \o QuoteClose

ClassSelector(el) ==
  Tag(el) \o <<".">> \o Join(Slice0(el.classList, 2), <<".">>)

AriaSelector(el) ==
  Tag(el) \o <<"[", "a", "r", "i", "a", "-", "l", "a", "b", "e", "l", "=", "\"">>
    \o el.aria \o QuoteClose

NthChildSelector(d, i) ==
  IF ~d[i].parentOk THEN Thrown
  ELSE Tag(d[i]) \o <<":", "n", "t", "h", "-", "c", "h", "i", "l", "d", "(">>
         \o NumStr(ChildIndex(d, i)) \o <<")">>

\* getBetterSelector of the simple profile: id first, no aria-label rule
getBetterSelector_simple(d, i) ==
  LET el == d[i] IN
  IF Truthy(el.id) THEN IdSelector(el)
  ELSE IF Truthy(el.testid) THEN TestIdSelector(el)
  ELSE IF Truthy(NameProp(el)) THEN NameSelector(el)
  ELSE IF Len(el.classList) > 0 THEN ClassSelector(el)
  ELSE NthChildSelector(d, i)

\* getBetterSelector of the structure profile (same text as the simple one)
getBetterSelector_structure(d, i) ==
  LET el == d[i] IN
  IF Truthy(el.id) THEN IdSelector(el)
  ELSE IF Truthy(el.testid) THEN TestIdSelector(el)
  ELSE IF Truthy(NameProp(el)) THEN NameSelector(el)
  ELSE IF Len(el.classList) > 0 THEN ClassSelector(el)
  ELSE NthChildSelector(d, i)

\* getBetterSelector of the classified profile (same text as the simple one)
getBetterSelector_classified(d, i) ==
  LET el == d[i] IN
  IF Truthy(el.id) THEN IdSelector(el)
  ELSE IF Truthy(el.testid) THEN TestIdSelector(el)
  ELSE IF Truthy(NameProp(el)) THEN NameSelector(el)
  ELSE IF Len(el.classList) > 0 THEN ClassSelector(el)
  ELSE NthChildSelector(d, i)

\* getBetterSelector of the extended profile: data-testid first, aria-label
\* before the structural fallback
getBetterSelector_extended(d, i) ==
  LET el == d[i] IN
  IF Truthy(el.testid) THEN TestIdSelector(el)
  ELSE IF Truthy(el.id) THEN IdSelector(el)
  ELSE IF Truthy(NameProp(el)) THEN NameSelector(el)
  ELSE IF Len(el.classList) > 0 THEN ClassSelector(el)
  ELSE IF Truthy(el.aria) THEN AriaSelector(el)
  ELSE NthChildSelector(d, i)

Profiles == {"simple", "structure", "classified", "extended"}

getBetterSelector(p, d, i) ==
  CASE p = "simple" -> getBetterSelector_simple(d, i)
    [] p = "structure" -> getBetterSelector_structure(d, i)
    [] p = "classified" -> getBetterSelector_classified(d, i)
    [] p = "extended" -> getBetterSelector_extended(d, i)

\* ------------------------------------------------------ label extraction
\* el.innerText?.trim()
InnerTextTrimmed(el) ==
  IF el.innerText = Undefined THEN Undefined ELSE Trim(el.innerText)

\* getText of the simple profile
getText_simple(el) ==
  LET text == InnerTextTrimmed(el) IN
  IF Truthy(text) THEN text
  ELSE IF Truthy(el.aria) THEN Trim(el.aria)
  ELSE IF Truthy(el.title) THEN Trim(el.title)
  ELSE IF Truthy(el.placeholder) THEN Trim(el.placeholder)
  ELSE Null

\* getText of the structure profile (same text as the simple one)
getText_structure(el) ==
  LET t == InnerTextTrimmed(el) IN
  IF Truthy(t) THEN t
  ELSE IF Truthy(el.aria) THEN Trim(el.aria)
  ELSE IF Truthy(el.title) THEN Trim(el.title)
  ELSE IF Truthy(el.placeholder) THEN Trim(el.placeholder)
  ELSE Null

\* getText of the classified profile (same text as the simple one)
getText_classified(el) ==
  LET text == InnerTextTrimmed(el) IN
  IF Truthy(text) THEN text
  ELSE IF Truthy(el.aria) THEN Trim(el.aria)
  ELSE IF Truthy(el.title) THEN Trim(el.title)
  ELSE IF Truthy(el.placeholder) THEN Trim(el.placeholder)
  ELSE Null

\* getText of the extended profile: adds the value attribute
getText_extended(el) ==
  LET t == InnerTextTrimmed(el) IN
  IF Truthy(t) THEN t
  ELSE IF Truthy(el.aria) THEN Trim(el.aria)
  ELSE IF Truthy(el.title) THEN Trim(el.title)
  ELSE IF Truthy(el.placeholder) THEN Trim(el.placeholder)
  ELSE IF Truthy(el.value) THEN Trim(el.value)
  ELSE Null

getText(p, el) ==
  CASE p = "simple" -> getText_simple(el)
    [] p = "structure" -> getText_structure(el)
    [] p = "classified" -> getText_classified(el)
    [] p = "extended" -> getText_extended(el)

\* ------------------------------------------------------------ visibility
\* isVisible of the extended profile: getComputedStyle is read inside a try
\* whose catch falls back to the rendered box.
isVisible(el) ==
  IF el.style = "throws" THEN el.hasBox
  ELSE el.hasBox /\ el.style # "hidden" /\ el.style # "none"

\* isVisibleAndEnabled of the classified profile
isVisibleAndEnabled(e) == e.hasBox /\ ~e.disabled

\* isEditable of the classified profile
isEditable(d, i) ==
  LET e == d[i] IN
  IF Tag(e) = ToLowerCase(Input) \/ Tag(e) = <<"t", "e", "x", "t", "a", "r", "e", "a">>
  THEN ~e.readOnly /\ isVisibleAndEnabled(e)
  ELSE IF IsContentEditable(d, i) THEN isVisibleAndEnabled(e)
  ELSE FALSE

RoleButton == <<"b", "u", "t", "t", "o", "n">>

\* isActionableButton of the classified profile
isActionableButton(e) ==
  IF Tag(e) = ToLowerCase(Button) \/ Tag(e) = ToLowerCase(Input) \/ e.role = RoleButton
  THEN isVisibleAndEnabled(e)
  ELSE FALSE

\* ------------------------------------------------------- node collectors
IsHTMLElement(el) == el.innerText # Undefined

TagIn(el, tags) == Tag(el) \in tags

TrueStr == <<"t", "r", "u", "e">>
TextArea == <<"t", "e", "x", "t", "a", "r", "e", "a">>
Select == <<"s", "e", "l", "e", "c", "t">>
Anchor == <<"a">>
RoleTextbox == <<"t", "e", "x", "t", "b", "o", "x">>

\* document.querySelectorAll("button, input, [role='button']")
Matches_simple(el) ==
  TagIn(el, {ToLowerCase(Button), ToLowerCase(Input)}) \/ el.role = RoleButton

\* document.querySelectorAll("button, input")
Matches_structure(el) == TagIn(el, {ToLowerCase(Button), ToLowerCase(Input)})

\* document.querySelectorAll("button, input, [role='button'], [contenteditable='true']")
Matches_classified(el) ==
  \/ TagIn(el, {ToLowerCase(Button), ToLowerCase(Input)})
  \/ el.role = RoleButton
  \/ el.contenteditable = TrueStr

\* the selector list of the extended profile
Matches_extended(el) ==
  \/ TagIn(el, {ToLowerCase(Button), ToLowerCase(Input), TextArea, Select})
  \/ Tag(el) = Anchor /\ el.href # Null
  \/ el.contenteditable = TrueStr
  \/ el.role = RoleButton
  \/ el.role = RoleTextbox
  \/ el.onclick # Null
  \/ el.testid # Null

\* the indices of doc, in document order
Indices(d) == [k \in 1..Len(d) |-> k]

\* ------------------------------------------------------------ descriptors
Descriptor_simple(d, i) ==
  LET e == d[i] IN
  [tag |-> Tag(e), selector |-> getBetterSelector_simple(d, i),
   text |-> getText_simple(e), name |-> OrNull(e.name),
   placeholder |-> OrNull(e.placeholder), testid |-> OrNull(e.testid),
   aria |-> OrNull(e.aria)]

Descriptor_structure(d, i) ==
  LET e == d[i] IN
  [tag |-> Tag(e), selector |-> getBetterSelector_structure(d, i),
   text |-> getText_structure(e), name |-> OrNull(e.name),
   placeholder |-> OrNull(e.placeholder), testid |-> OrNull(e.testid),
   aria |-> OrNull(e.aria)]

Descriptor_classified(d, i) ==
  LET e == d[i] IN
  [tag |-> Tag(e), selector |-> getBetterSelector_classified(d, i),
   text |-> getText_classified(e), name |-> OrNull(e.name),
   placeholder |-> OrNull(e.placeholder), testid |-> OrNull(e.testid),
   aria |-> OrNull(e.aria),
   contenteditable |-> IF IsContentEditable(d, i) THEN True ELSE Null]

Descriptor_extended(d, i) ==
  LET e == d[i] IN
  [tag |-> Tag(e), selector |-> getBetterSelector_extended(d, i),
   text |-> getText_extended(e), name |-> OrNull(e.name),
   placeholder |-> OrNull(e.placeholder), testid |-> OrNull(e.testid),
   aria |-> OrNull(e.aria), type |-> OrNull(e.type), href |-> OrNull(e.href),
   contenteditable |-> OrNull(e.contenteditable), role |-> OrNull(e.role),
   className |-> IF IsHTMLElement(e) THEN OrNull(ClassName(e)) ELSE Object,
   id |-> OrNull(e.id)]

\* ---------------------------------------------------------------- filters
\* Filter_simple without the disabled test
Filter_simple_NoDisabled(e) ==
  /\ e.hasBox
  /\ (Truthy(getText_simple(e)) \/ Truthy(e.testid) \/ Truthy(NameProp(e)))

\* the filter of the simple profile
Filter_simple(e) ==
  /\ e.hasBox
  /\ ~e.disabled
  /\ (Truthy(getText_simple(e)) \/ Truthy(e.testid) \/ Truthy(NameProp(e)))

\* the filter of the structure profile
Filter_structure(e) ==
  /\ e.hasBox
  /\ ~e.disabled
  /\ (Truthy(getText_structure(e)) \/ Truthy(e.testid) \/ Truthy(NameProp(e)))

\* the filter of the classified profile
Filter_classified(d, i) ==
  /\ (isEditable(d, i) \/ isActionableButton(d[i]))
  /\ (Truthy(getText_classified(d[i])) \/ Truthy(d[i].testid) \/ Truthy(NameProp(d[i])))

\* Filter_extended letting a name attribute override a missing box as well
Filter_extended_NameOverride(e) ==
  \/ e.hasBox
  \/ (IF e.innerText = Undefined THEN TRUE ELSE Truthy(Trim(e.innerText)))
  \/ Truthy(e.testid)
  \/ Truthy(e.name)

\* Filter_extended reading the computed style inside its try: a hidden style
\* rejects the box, a raising style query lands in the catch
Filter_extended_ReadsStyle(e) ==
  IF e.style = "throws" THEN TRUE
  ELSE \/ e.hasBox /\ e.style = "shown"
       \/ (IF e.innerText = Undefined THEN TRUE ELSE Truthy(Trim(e.innerText)))
       \/ Truthy(e.testid)

\* the first filter of the extended profile; e.innerText.trim() raises when
\* innerText is undefined, and the catch keeps the element
Filter_extended(e) ==
  \/ e.hasBox
  \/ (IF e.innerText = Undefined THEN TRUE ELSE Truthy(Trim(e.innerText)))
  \/ Truthy(e.testid)

Login == <<"l", "o", "g", "i", "n">>
Sign == <<"s", "i", "g", "n">>

\* e.className && (e.className.includes(...) || ...): "raises" when className
\* is an object without includes
ClassNameTest(x) ==
  IF x.className = Object THEN "raises"
  ELSE IF Truthy(x.className)
          /\ (Includes(x.className, Login) \/ Includes(x.className, Sign)
              \/ Includes(x.className, RoleButton))
       THEN "true"
  ELSE "false"

\* the operands of the second filter of the extended profile that come
\* before the className test
HasInfo(x) ==
  \/ Truthy(x.text) \/ Truthy(x.testid) \/ Truthy(x.name) \/ Truthy(x.href)
  \/ Truthy(x.aria) \/ Truthy(x.type) \/ Truthy(x.contenteditable)
  \/ Truthy(x.role) \/ Truthy(x.id)

\* the second filter of the extended profile: "true", "false" or "raises"
Keep_extended(x) == IF HasInfo(x) THEN "true" ELSE ClassNameTest(x)

\* ---------------------------------------------------------- deduplication
\* `${el.tag}::${el.text}`
Key(x) == x.tag \o <<":", ":">> \o Str(x.text)

\* uniqueElements: the positions of xs whose key no earlier position has
uniqueElements(xs) ==
  SelectSeq(Indices(xs),
            LAMBDA k : \A j \in 1..(k - 1) : Key(xs[j]) # Key(xs[k]))

\* -------------------------------------------------------------- snapshots
Url == <<"u">>
Title == <<"t">>
ErrorMessage == <<"T", "y", "p", "e", "E", "r", "r", "o", "r">>

NoOutput ==
  [status |-> "none", url |-> Null, title |-> Null, timestamp |-> FALSE,
   elements |-> <<>>, origin |-> <<>>, error |-> Null]

\* an exception leaves the function: nothing is returned
Uncaught == [NoOutput EXCEPT !.status = "threw"]

\* the value returned by the catch block of the extended profile
ErrorSnapshot ==
  [status |-> "returned", url |-> Url, title |-> Title, timestamp |-> TRUE,
   elements |-> <<>>, origin |-> <<>>, error |-> ErrorMessage]

\* a returned snapshot; origin[k] is the index in doc of the node that
\* elements[k] was built from (kept for the properties, not part of the value)
Snapshot(elems, from, stamped) ==
  [status |-> "returned", url |-> Url, title |-> Title, timestamp |-> stamped,
   elements |-> elems, origin |-> from, error |-> Null]

Pick(xs, ks) == [k \in 1..Len(ks) |-> xs[ks[k]]]

AnyThrown(xs) == \E k \in 1..Len(xs) : xs[k].selector = Thrown

\* ------------------------------------------------------------- pipelines
\* querySelectorAll(...).filter(...): the indices of the nodes that are kept
Kept_simple(d) ==
  SelectSeq(SelectSeq(Indices(d), LAMBDA i : Matches_simple(d[i])),
            LAMBDA i : Filter_simple(d[i]))

Kept_structure(d) ==
  SelectSeq(SelectSeq(Indices(d), LAMBDA i : Matches_structure(d[i])),
            LAMBDA i : Filter_structure(d[i]))

Kept_classified(d) ==
  SelectSeq(SelectSeq(Indices(d), LAMBDA i : Matches_classified(d[i])),
            LAMBDA i : Filter_classified(d, i))

Kept_extended(d) ==
  SelectSeq(SelectSeq(Indices(d), LAMBDA i : Matches_extended(d[i])),
            LAMBDA i : Filter_extended(d[i]))

\* src/extractJsonInteractive_simple.js
Run_simple(d) ==
  LET kept == Kept_simple(d)
      elements == [k \in 1..Len(kept) |-> Descriptor_simple(d, kept[k])]
      uniq == uniqueElements(elements)
  IN IF AnyThrown(elements) THEN Uncaught
     ELSE Snapshot(Pick(elements, uniq), Pick(kept, uniq), FALSE)

\* src/extractJsonStructure.js, second function: no deduplication
Run_structure(d) ==
  LET kept == Kept_structure(d)
      elements == [k \in 1..Len(kept) |-> Descriptor_structure(d, kept[k])]
  IN IF AnyThrown(elements) THEN Uncaught
     ELSE Snapshot(elements, kept, FALSE)

\* src/unnamed/part_001, first function
Run_classified(d) ==
  LET kept == Kept_classified(d)
      elements == [k \in 1..Len(kept) |-> Descriptor_classified(d, kept[k])]
      uniq == uniqueElements(elements)
  IN IF AnyThrown(elements) THEN Uncaught
     ELSE Snapshot(Pick(elements, uniq), Pick(kept, uniq), FALSE)

\* src/unnamed/part_001, second function: everything inside try/catch
Run_extended(d) ==
  LET kept == Kept_extended(d)
      mapped == [k \in 1..Len(kept) |-> Descriptor_extended(d, kept[k])]
      pos == SelectSeq(Indices(mapped), LAMBDA k : Keep_extended(mapped[k]) = "true")
  IN IF AnyThrown(mapped) THEN ErrorSnapshot
     ELSE IF \E k \in 1..Len(mapped) : Keep_extended(mapped[k]) = "raises"
     THEN ErrorSnapshot
     ELSE Snapshot(Pick(mapped, pos), Pick(kept, pos), TRUE)

\* ------------------------------------------------------------ documents
RECURSIVE Ancestors(_, _)
Ancestors(d, i) ==
  IF i = 0 THEN {0} ELSE {i} \cup Ancestors(d, d[i].parent)

\* document order is pre-order: the parent of node i is node i-1 or one of
\* its ancestors; only <div> elements have children here; the inner text of
\* a parent is not empty when a rendered child has text
ValidTree(d) ==
  \A i \in 1..Len(d) :
    LET p == d[i].parent IN
    /\ p < i
    /\ p \in Ancestors(d, i - 1)
    /\ p # 0 =>
         /\ d[p].tagName = Div
         /\ d[p].innerText # Undefined
         /\ (d[i].hasBox /\ Truthy(InnerTextTrimmed(d[i])))
              => Truthy(InnerTextTrimmed(d[p]))

WithParents(d0, par) == [k \in 1..Len(d0) |-> [d0[k] EXCEPT !.parent = par[k]]]

\* the documents of at most MaxNodes elements drawn from nodes
Docs(nodes) ==
  UNION {{d \in {WithParents(d0, par) : d0 \in [1..n -> nodes],
                                          par \in [1..n -> 0..(n - 1)]} :
            ValidTree(d)} : n \in 1..MaxNodes}

\* ---------------------------------------------------------------- actions
NoCall == [op |-> "none", profile |-> "none", node |-> 0]

InitWith(nodes) ==
  /\ doc \in Docs(nodes)
  /\ call = NoCall
  /\ out = NoOutput
  /\ ret = Null

\* the script of src/extractJsonInteractive_simple.js is run on the document
RunSimple ==
  /\ call' = [op |-> "run", profile |-> "simple", node |-> 0]
  /\ out' = Run_simple(doc)
  /\ ret' = Null
  /\ UNCHANGED doc

\* the second function of src/extractJsonStructure.js is run
RunStructure ==
  /\ call' = [op |-> "run", profile |-> "structure", node |-> 0]
  /\ out' = Run_structure(doc)
  /\ ret' = Null
  /\ UNCHANGED doc

\* the first function of src/unnamed/part_001 is run
RunClassified ==
  /\ call' = [op |-> "run", profile |-> "classified", node |-> 0]
  /\ out' = Run_classified(doc)
  /\ ret' = Null
  /\ UNCHANGED doc

\* the second function of src/unnamed/part_001 is run
RunExtended ==
  /\ call' = [op |-> "run", profile |-> "extended", node |-> 0]
  /\ out' = Run_extended(doc)
  /\ ret' = Null
  /\ UNCHANGED doc

\* one application of getBetterSelector to a node of the document
CallGetBetterSelector ==
  \E p \in Profiles, i \in 1..Len(doc) :
    /\ call' = [op |-> "getBetterSelector", profile |-> p, node |-> i]
    /\ ret' = getBetterSelector(p, doc, i)
    /\ out' = NoOutput
    /\ UNCHANGED doc

\* one application of getText to a node of the document
CallGetText ==
  \E p \in Profiles, i \in 1..Len(doc) :
    /\ call' = [op |-> "getText", profile |-> p, node |-> i]
    /\ ret' = getText(p, doc[i])
    /\ out' = NoOutput
    /\ UNCHANGED doc

\* one application of isVisible (extended profile) to a node of the document
CallIsVisible ==
  \E i \in 1..Len(doc) :
    /\ call' = [op |-> "isVisible", profile |-> "extended", node |-> i]
    /\ ret' = IF isVisible(doc[i]) THEN True ELSE False
    /\ out' = NoOutput
    /\ UNCHANGED doc

Next ==
  \/ RunSimple
  \/ RunStructure
  \/ RunClassified
  \/ RunExtended
  \/ CallGetBetterSelector
  \/ CallGetText
  \/ CallIsVisible

\* ------------------------------------------------------- input families
Form == <<"F", "O", "R", "M">>
OK == <<"O", "K">>

\* nodes that differ in the attributes getBetterSelector reads.  Reading
\* parentNode.children raises only on a <form> whose controls shadow
\* parentNode.
SelNodes ==
  {[DefaultNode EXCEPT !.innerText = OK, !.id = i, !.testid = t, !.name = n,
                       !.classList = c, !.aria = a] :
     i \in {<<>>, <<"a">>}, t \in {Null, <<"t">>}, n \in {Null, <<"n">>},
     c \in {<<>>, << <<"b">>, <<"c">>, <<"d">> >>}, a \in {Null, <<"x">>}}
  \cup {[DefaultNode EXCEPT !.tagName = Div, !.innerText = OK]}
  \cup {[DefaultNode EXCEPT !.tagName = Form, !.role = RoleButton,
                            !.innerText = OK, !.id = i, !.parentOk = po] :
          i \in {<<>>, <<"a">>}, po \in BOOLEAN}

\* nodes that differ in the sources getText reads
TextNodes ==
  {[DefaultNode EXCEPT !.name = <<"n">>, !.innerText = x, !.aria = a,
                       !.title = t, !.placeholder = ph, !.value = v] :
     x \in {<<>>, <<" ">>, <<" ", "O", "K", " ">>},
     a \in {Null, <<" ">>, <<"A">>}, t \in {Null, <<"T">>},
     ph \in {Null, <<" ", "P">>}, v \in {Null, <<"V">>}}

\* a control whose label source holds x: the inner text of a <button>, the
\* placeholder of an <input> (whose inner text is always empty)
Labelled(tg, x) ==
  IF tg = Input
  THEN [DefaultNode EXCEPT !.tagName = tg, !.placeholder = IF x = <<>> THEN Null ELSE x]
  ELSE [DefaultNode EXCEPT !.tagName = tg, !.innerText = x]

\* nodes that differ in tag, label and selector attributes
DedupNodes ==
  {[Labelled(tg, x) EXCEPT !.name = n, !.id = i] :
     tg \in {Button, Input}, x \in {<<>>, OK, <<"O", "K", " ">>, <<"n", "u", "l", "l">>},
     n \in {Null, <<"n">>}, i \in {<<>>, <<"a">>}}

\* nodes with and without a rendered box; a non-HTML element has no
\* offsetParent property, so for it `offsetParent !== null` is true
HiddenNodes ==
  {[DefaultNode EXCEPT !.hasBox = b, !.innerText = m[1], !.testid = m[2],
                       !.name = m[3]] :
     b \in BOOLEAN,
     m \in {<<<<>>, Null, Null>>, <<OK, Null, Null>>, <<<<>>, <<"t">>, Null>>,
            <<<<>>, Null, <<"n">>>>}}
  \cup {[DefaultNode EXCEPT !.innerText = Undefined, !.onclick = <<"f">>,
                            !.tagName = <<"r", "e", "c", "t">>]}

\* enabled and disabled controls
DisabledNodes ==
  {[Labelled(tg, m[1]) EXCEPT !.disabled = dis, !.name = m[2]] :
     tg \in {Button, Input}, dis \in BOOLEAN,
     m \in {<<OK, Null>>, <<<<>>, <<"e", "m", "a", "i", "l">>>>}}

\* nodes that differ in computed style; display:none leaves no rendered box
StyleNodes ==
  {nd \in {[DefaultNode EXCEPT !.name = <<"n">>, !.hasBox = b, !.style = st] :
             b \in BOOLEAN, st \in {"shown", "hidden", "none", "throws"}} :
     nd.style = "none" => ~nd.hasBox}

InitSel == InitWith(SelNodes)
\* no shadowed parentNode, and ids unique as in a valid document
InitSelPlain ==
  /\ InitWith({nd \in SelNodes : nd.parentOk})
  /\ \A i, j \in 1..Len(doc) : (i # j /\ doc[i].id # <<>>) => doc[i].id # doc[j].id
InitText == InitWith(TextNodes)
InitDedup == InitWith(DedupNodes)
InitHidden == InitWith(HiddenNodes)
InitDisabled == InitWith(DisabledNodes)
InitStyle == InitWith(StyleNodes)

Init == InitSel

Spec == Init /\ [][Next]_vars
SpecSel == InitSel /\ [][Next]_vars
SpecSelPlain == InitSelPlain /\ [][Next]_vars
SpecText == InitText /\ [][Next]_vars
SpecDedup == InitDedup /\ [][Next]_vars
SpecHidden == InitHidden /\ [][Next]_vars
SpecDisabled == InitDisabled /\ [][Next]_vars
SpecStyle == InitStyle /\ [][Next]_vars

\* ============================================================ properties
Ran(ps) == call.op = "run" /\ call.profile \in ps

Returned == out.status = "returned"

Kept(p, d) ==
  CASE p = "simple" -> Kept_simple(d)
    [] p = "structure" -> Kept_structure(d)
    [] p = "classified" -> Kept_classified(d)
    [] p = "extended" -> Kept_extended(d)

\* the node the selector/label call was applied to
Arg == doc[call.node]

DataTestIdForm(v) ==
  <<"[", "d", "a", "t", "a", "-", "t", "e", "s", "t", "i", "d", "=", "\"">>
    \o v \o <<"\"", "]">>

AriaLabelForm(tag, v) ==
  tag \o <<"[", "a", "r", "i", "a", "-", "l", "a", "b", "e", "l", "=", "\"">>
    \o v \o <<"\"", "]">>

NthChildForm(tag, k) ==
  tag \o <<":", "n", "t", "h", "-", "c", "h", "i", "l", "d", "(">> \o NumStr(k) \o <<")">>

\* C1: for every node with a non-empty data-testid, getBetterSelector returns
\* [data-testid="<value>"] whatever else the node carries, in every profile.
C1_TestIdDominates ==
  (call.op = "getBetterSelector" /\ Truthy(Arg.testid))
    => ret = DataTestIdForm(Arg.testid)

\* the (tag, label) pair of node i under profile p
Pair(p, d, i) == <<Tag(d[i]), getText(p, d[i])>>

\* the kept candidates that are the first with their (tag, label) pair
FirstOfPair(p, d) ==
  LET kept == Kept(p, d) IN
  SelectSeq(kept,
            LAMBDA i : \A k \in 1..Len(kept) :
                         kept[k] < i => Pair(p, d, kept[k]) # Pair(p, d, i))

\* C2: in the deduplicating profiles, elements holds exactly the first
\* candidate of each distinct (tag, label) pair, in document order.
C2_FirstOfEachPair ==
  (Ran({"simple", "classified"}) /\ Returned)
    => out.origin = FirstOfPair(call.profile, doc)

\* an exception is raised outside the per-node evaluation
Faulted(p, d) ==
  LET kept == Kept(p, d) IN
  \E k \in 1..Len(kept) : getBetterSelector(p, d, kept[k]) = Thrown

\* C3: every invocation returns a well-formed Snapshot; when an exception is
\* raised outside per-node evaluation the Snapshot has no elements and an error.
C3_AlwaysReturns ==
  call.op = "run"
    => /\ Returned
       /\ out.url = Url /\ out.title = Title
       /\ Faulted(call.profile, doc)
            => out.elements = <<>> /\ out.error # Null

\* strong identifying metadata
HasMetadata(el) ==
  Truthy(el.testid) \/ Truthy(el.name) \/ Truthy(el.href) \/ Truthy(el.aria)

InOrigin(i) == \E k \in 1..Len(out.origin) : out.origin[k] = i

C5_DisabledExcluded ==
  (Ran({"simple", "structure"}) /\ Returned)
    => \A k \in 1..Len(out.origin) : ~doc[out.origin[k]].disabled

C5_Witness ==
  /\ Ran({"simple"}) /\ Returned
  /\ Len(out.elements) >= 1
  /\ \E i \in 1..Len(doc) :
       /\ doc[i].disabled /\ doc[i].tagName = Input
       /\ doc[i].name = <<"e", "m", "a", "i", "l">>
       /\ ~InOrigin(i)

\* C6: a node with a rendered box whose computed style is display:none or
\* visibility:hidden does not pass the filter as visible.
C6_StyleHiddenExcluded ==
  (Ran({"extended", "classified"}) /\ Returned)
    => \A k \in 1..Len(out.origin) :
         LET el == doc[out.origin[k]] IN
         ~(el.hasBox /\ el.style \in {"hidden", "none"})

\* doc with every raising style query answered by st instead
Calm(d, st) ==
  [k \in 1..Len(d) |->
     IF d[k].style = "throws" THEN [d[k] EXCEPT !.style = st] ELSE d[k]]

SomeStyleThrows == \E i \in 1..Len(doc) : doc[i].style = "throws"

\* C7: a raising style query degrades that node's visibility decision to
\* 'has rendered box'; the Snapshot is the one obtained had the query not
\* raised, and carries no error.
C7_StyleFailureContained ==
  /\ (call.op = "isVisible" /\ Arg.style = "throws")
       => ret = (IF Arg.hasBox THEN True ELSE False)
  /\ (Ran({"extended"}) /\ SomeStyleThrows)
       => /\ Returned
          /\ out.error = Null
          /\ \A st \in {"shown", "hidden"} : out = Run_extended(Calm(doc, st))

C7_Witness ==
  /\ Ran({"extended"}) /\ Returned
  /\ \E i \in 1..Len(doc) : doc[i].style = "throws" /\ InOrigin(i)
  /\ \E i \in 1..Len(doc) : doc[i].style = "shown" /\ InOrigin(i)

\* trimmed value of a label source, empty when the source is absent
TrimmedSource(v) == IF v = Null \/ v = Undefined THEN <<>> ELSE Trim(v)

LabelSources(el) ==
  <<el.innerText, el.aria, el.title, el.placeholder, el.value>>

ExpectedLabel(el) ==
  LET src == LabelSources(el)
      hits == {k \in 1..Len(src) : TrimmedSource(src[k]) # <<>>}
  IN IF hits = {} THEN Null
     ELSE TrimmedSource(src[CHOOSE k \in hits : \A m \in hits : k <= m])

\* C8: getText returns the trimmed value of the first of inner text,
\* aria-label, title, placeholder, value that is non-empty after trimming,
\* and null when there is none; never the empty string.
C8_FirstNonEmptyTrimmed ==
  call.op = "getText" => ret = ExpectedLabel(Arg) /\ ret # <<>>

\* node j of d is matched by the selector sel (the selector forms the
\* scripts emit)
SelectorMatches(sel, d, j) ==
  LET el == d[j]
      tokens == {el.classList[k] : k \in 1..Len(el.classList)}
  IN \/ el.id # <<>> /\ sel = <<"#">> \o el.id
     \/ el.testid # Null /\ sel = DataTestIdForm(el.testid)
     \/ el.name # Null
          /\ sel = Tag(el) \o <<"[", "n", "a", "m", "e", "=", "\"">> \o el.name
                     \o <<"\"", "]">>
     \/ \E a \in tokens : sel = Tag(el) \o <<".">> \o a
     \/ \E a, b \in tokens : sel = Tag(el) \o <<".">> \o a \o <<".">> \o b
     \/ el.aria # Null /\ sel = AriaLabelForm(Tag(el), el.aria)
     \/ sel = NthChildForm(Tag(el), ChildIndex(d, j))

\* C9: the selector of every descriptor matches exactly one node of the
\* unchanged tree, the node the descriptor was built from.
C9_SelectorResolvesToOrigin ==
  (Ran(Profiles) /\ Returned)
    => \A k \in 1..Len(out.elements) :
         {j \in 1..Len(doc) : SelectorMatches(out.elements[k].selector, doc, j)}
           = {out.origin[k]}

NoStrongAttribute(el) ==
  el.testid = Null /\ el.id = <<>> /\ el.name = Null /\ el.classList = <<>>

\* C10: without data-testid, id, name, classes and aria-label the selector is
\* <tag>:nth-child(k), k the 1-based position among the parent's children;
\* with only aria-label present it is the tag + aria-label form.
C10_FallbackAndAriaLabel ==
  call.op = "getBetterSelector"
    => /\ (NoStrongAttribute(Arg) /\ Arg.aria = Null)
            => /\ ret = NthChildForm(Tag(Arg), ChildIndex(doc, call.node))
               /\ ChildIndex(doc, call.node) \in 1..ChildCount(doc, Arg.parent)
       /\ (NoStrongAttribute(Arg) /\ Arg.aria # Null)
            => ret = AriaLabelForm(Tag(Arg), Arg.aria)

====
